---------------------------- MODULE Spec2Model ----------------------------
(***************************************************************************)
(* A model of the arXiv paper loader and query layer of problem2:          *)
(*   load_data.py     keyword extraction, projection of one paper into     *)
(*                    its view records, the batch-writing load run         *)
(*   query_papers.py  the five queries of the command line                 *)
(*   api_server.py    the five queries of the HTTP server                  *)
(*                                                                         *)
(* Strings are sequences of character codes (ASCII), so that formatting,   *)
(* lowercasing, tokenizing and the store's lexicographic order of sort     *)
(* keys are computed character by character as the code computes them.     *)
(* In comments a string is written in quotes: "CATEGORY#" is the sequence  *)
(* of the codes of C, A, T, ...                                            *)
(***************************************************************************)
EXTENDS Integers, Sequences, FiniteSets, TLC

(***************************************************************************)
(* Bounds of the model.                                                    *)
(***************************************************************************)
\* the longest papers.json a load run reads
MaxPapers == 2
\* how many times load_data.py is run
MaxRuns == 2
\* the longest text given to extract_keywords, in words of WordPool
MaxWords == 3
\* the largest topk given to extract_keywords when it is checked alone
MaxTopK == 2

(***************************************************************************)
(* Strings.                                                                *)
(***************************************************************************)
IsUpper(c) == c \in 65..90
IsLetter(c) == c \in 65..90 \/ c \in 97..122
IsDigit(c) == c \in 48..57

\* str.lower() of one character
LowerChar(c) == IF IsUpper(c) THEN c + 32 ELSE c

\* str.lower()
Lower(s) == [i \in 1..Len(s) |-> LowerChar(s[i])]

Min(a, b) == IF a <= b THEN a ELSE b

\* a <= b in the order of Python strings and of the store's string keys:
\* the first differing character decides, a proper prefix is smaller
StrLeq(a, b) ==
    \E k \in 0..Min(Len(a), Len(b)) :
        /\ \A i \in 1..k : a[i] = b[i]
        /\ \/ k = Len(a)
           \/ k < Len(b) /\ a[k + 1] < b[k + 1]

StrLess(a, b) == StrLeq(a, b) /\ a # b

\* s[i..j], Python's s[i-1:j]
Slice(s, i, j) == [k \in 1..(j - i + 1) |-> s[i + k - 1]]

\* the members of a sequence
Range(s) == {s[i] : i \in 1..Len(s)}

\* the sequences that list every member of a finite set exactly once
Orderings(S) ==
    {q \in [1..Cardinality(S) -> S] : \A i, j \in 1..Cardinality(S) : q[i] = q[j] => i = j}

\* the literals the key strings are formatted with: f"CATEGORY#{cat}",
\* f"{published}#{arxiv_id}", f"KW#{arxiv_id}#{kw}", f"{end_date}#zzzzzzz", ...
CATEGORY_ == <<67, 65, 84, 69, 71, 79, 82, 89, 35>> (* "CATEGORY#" *)
AUTHOR_ == <<65, 85, 84, 72, 79, 82, 35>> (* "AUTHOR#" *)
KEYWORD_ == <<75, 69, 89, 87, 79, 82, 68, 35>> (* "KEYWORD#" *)
ARXIV_ID_ == <<65, 82, 88, 73, 86, 95, 73, 68, 35>> (* "ARXIV_ID#" *)
KW_ == <<75, 87, 35>> (* "KW#" *)
HASH == <<35>> (* "#" *)
HASH_ZZZZZZZ == <<35, 122, 122, 122, 122, 122, 122, 122>> (* "#zzzzzzz" *)

(***************************************************************************)
(* load_data.py: keyword extraction.                                       *)
(***************************************************************************)
STOPWORDS ==
    { <<116, 104, 101>>,                                  \* the
      <<97>>,                                             \* a
      <<97, 110>>,                                        \* an
      <<97, 110, 100>>,                                   \* and
      <<111, 114>>,                                       \* or
      <<98, 117, 116>>,                                   \* but
      <<105, 110>>,                                       \* in
      <<111, 110>>,                                       \* on
      <<97, 116>>,                                        \* at
      <<116, 111>>,                                       \* to
      <<102, 111, 114>>,                                  \* for
      <<111, 102>>,                                       \* of
      <<119, 105, 116, 104>>,                             \* with
      <<98, 121>>,                                        \* by
      <<102, 114, 111, 109>>,                             \* from
      <<117, 112>>,                                       \* up
      <<97, 98, 111, 117, 116>>,                          \* about
      <<105, 110, 116, 111>>,                             \* into
      <<116, 104, 114, 111, 117, 103, 104>>,              \* through
      <<100, 117, 114, 105, 110, 103>>,                   \* during
      <<105, 115>>,                                       \* is
      <<97, 114, 101>>,                                   \* are
      <<119, 97, 115>>,                                   \* was
      <<119, 101, 114, 101>>,                             \* were
      <<98, 101>>,                                        \* be
      <<98, 101, 101, 110>>,                              \* been
      <<98, 101, 105, 110, 103>>,                         \* being
      <<104, 97, 118, 101>>,                              \* have
      <<104, 97, 115>>,                                   \* has
      <<104, 97, 100>>,                                   \* had
      <<100, 111>>,                                       \* do
      <<100, 111, 101, 115>>,                             \* does
      <<100, 105, 100>>,                                  \* did
      <<119, 105, 108, 108>>,                             \* will
      <<119, 111, 117, 108, 100>>,                        \* would
      <<99, 111, 117, 108, 100>>,                         \* could
      <<115, 104, 111, 117, 108, 100>>,                   \* should
      <<109, 97, 121>>,                                   \* may
      <<109, 105, 103, 104, 116>>,                        \* might
      <<99, 97, 110>>,                                    \* can
      <<116, 104, 105, 115>>,                             \* this
      <<116, 104, 97, 116>>,                              \* that
      <<116, 104, 101, 115, 101>>,                        \* these
      <<116, 104, 111, 115, 101>>,                        \* those
      <<119, 101>>,                                       \* we
      <<111, 117, 114>>,                                  \* our
      <<117, 115, 101>>,                                  \* use
      <<117, 115, 105, 110, 103>>,                        \* using
      <<98, 97, 115, 101, 100>>,                          \* based
      <<97, 112, 112, 114, 111, 97, 99, 104>>,            \* approach
      <<109, 101, 116, 104, 111, 100>>,                   \* method
      <<112, 97, 112, 101, 114>>,                         \* paper
      <<112, 114, 111, 112, 111, 115, 101>>,              \* propose
      <<112, 114, 111, 112, 111, 115, 101, 100>>,         \* proposed
      <<115, 104, 111, 119>> }                            \* show

\* the character class [a-zA-Z0-9\-] that continues a token
IsTokenChar(c) == IsLetter(c) \/ IsDigit(c) \/ c = 45

\* the end of the longest match of [a-zA-Z0-9\-]* that starts after position i
RECURSIVE MatchEnd(_, _)
MatchEnd(text, i) ==
    IF i < Len(text) /\ IsTokenChar(text[i + 1]) THEN MatchEnd(text, i + 1) ELSE i

\* TOKENIZER.findall(text) from position i on: the leftmost matches of
\* [a-zA-Z][a-zA-Z0-9\-]*, each as long as it can be, none overlapping
RECURSIVE FindAll(_, _)
FindAll(text, i) ==
    IF i > Len(text) THEN <<>>
    ELSE IF IsLetter(text[i])
         THEN <<Slice(text, i, MatchEnd(text, i))>> \o FindAll(text, MatchEnd(text, i) + 1)
         ELSE FindAll(text, i + 1)

TOKENIZER(text) == FindAll(text, 1)

\* [t for t in tokens if t not in STOPWORDS]
NotStopword(t) == t \notin STOPWORDS

\* the keys of Counter(tokens) in insertion order: each token once, at its
\* first occurrence
RECURSIVE CounterKeys(_)
CounterKeys(tokens) ==
    IF tokens = <<>> THEN <<>>
    ELSE LET front == CounterKeys(SubSeq(tokens, 1, Len(tokens) - 1))
             last == tokens[Len(tokens)]
         IN IF last \in Range(front) THEN front ELSE Append(front, last)

\* Counter(tokens)[w]
Count(tokens, w) == Cardinality({i \in 1..Len(tokens) : tokens[i] = w})

\* RanksBefore with the bug of breaking ties by the order of the words
RanksBefore_lexicographic(tokens, keys, i, j) ==
    \/ Count(tokens, keys[i]) > Count(tokens, keys[j])
    \/ Count(tokens, keys[i]) = Count(tokens, keys[j]) /\ StrLess(keys[i], keys[j])

\* whether the entry at position i of the counter comes before the entry at
\* position j in sorted(items, key=count, reverse=True): the larger count
\* first, equal counts in the order of the counter (the sort is stable)
RanksBefore(tokens, keys, i, j) ==
    \/ Count(tokens, keys[i]) > Count(tokens, keys[j])
    \/ Count(tokens, keys[i]) = Count(tokens, keys[j]) /\ i < j

\* Counter(tokens).most_common(n): heapq.nlargest(n, items, key=count), which
\* is sorted(items, key=count, reverse=True)[:n], and empty for n <= 0
most_common(tokens, n) ==
    LET keys == CounterKeys(tokens)
        rank(i) == 1 + Cardinality({j \in 1..Len(keys) : RanksBefore(tokens, keys, j, i)})
        sorted == [r \in 1..Len(keys) |-> keys[CHOOSE i \in 1..Len(keys) : rank(i) = r]]
    IN IF n <= 0 THEN <<>> ELSE SubSeq(sorted, 1, Min(n, Len(keys)))

\* extract_keywords with the bug of dropping the stopwords before lowercasing
extract_keywords_filter_first(text, topk) ==
    LET kept == SelectSeq(TOKENIZER(text), NotStopword)
    IN most_common([i \in 1..Len(kept) |-> Lower(kept[i])], topk)

extract_keywords(text, topk) ==
    LET lowered == [i \in 1..Len(TOKENIZER(text)) |-> Lower(TOKENIZER(text)[i])]
        tokens == SelectSeq(lowered, NotStopword)
    IN most_common(tokens, topk)

(***************************************************************************)
(* load_data.py: the projection of one paper into its view records.        *)
(*                                                                         *)
(* A paper is a JSON object: present is the set of its keys, and a key     *)
(* that is not present has no value (the field then holds a filler that    *)
(* nothing reads).  A view record (an item) is a record of all attributes  *)
(* any view has; attrs is the set of attributes the item really has.       *)
(***************************************************************************)
Has(p, f) == f \in p.present

\* p.get(f, default)
Get(p, f, default) == IF Has(p, f) THEN p[f] ELSE default

\* the topk transform_paper asks of extract_keywords
TopK == 10

NoAttrs ==
    [PK |-> <<>>, SK |-> <<>>, type |-> "", arxiv_id |-> <<>>, title |-> <<>>,
     authors |-> <<>>, abstract |-> <<>>, categories |-> <<>>, keywords |-> <<>>,
     published |-> <<>>, token |-> <<>>, GSI1PK |-> <<>>, GSI1SK |-> <<>>,
     GSI2PK |-> <<>>, GSI3PK |-> <<>>, GSI3SK |-> <<>>, attrs |-> {}]

\* the item of one category: the full projection, found by id through GSI2PK
CategoryItem(cat, arxiv_id, title, authors, abstract, cats, keywords, published) ==
    [NoAttrs EXCEPT
        !.PK = CATEGORY_ \o cat,
        !.SK = published \o HASH \o arxiv_id,
        !.arxiv_id = arxiv_id,
        !.title = title,
        !.authors = authors,
        !.abstract = abstract,
        !.categories = cats,
        !.keywords = keywords,
        !.published = published,
        !.GSI2PK = ARXIV_ID_ \o arxiv_id,
        !.attrs = {"PK", "SK", "arxiv_id", "title", "authors", "abstract",
                   "categories", "keywords", "published", "GSI2PK"}]

\* AuthorItem with the bug of keeping the first category only
AuthorItem_first_category(author, arxiv_id, title, cats, published) ==
    [NoAttrs EXCEPT
        !.PK = AUTHOR_ \o author,
        !.SK = published \o HASH \o arxiv_id,
        !.type = "AUTHOR",
        !.arxiv_id = arxiv_id,
        !.title = title,
        !.categories = SubSeq(cats, 1, 1),
        !.published = published,
        !.GSI1PK = AUTHOR_ \o author,
        !.GSI1SK = published \o HASH \o arxiv_id,
        !.attrs = {"PK", "SK", "type", "arxiv_id", "title", "categories",
                   "published", "GSI1PK", "GSI1SK"}]

\* the item of one author, found through AuthorIndex
AuthorItem(author, arxiv_id, title, cats, published) ==
    [NoAttrs EXCEPT
        !.PK = AUTHOR_ \o author,
        !.SK = published \o HASH \o arxiv_id,
        !.type = "AUTHOR",
        !.arxiv_id = arxiv_id,
        !.title = title,
        !.categories = cats,
        !.published = published,
        !.GSI1PK = AUTHOR_ \o author,
        !.GSI1SK = published \o HASH \o arxiv_id,
        !.attrs = {"PK", "SK", "type", "arxiv_id", "title", "categories",
                   "published", "GSI1PK", "GSI1SK"}]

\* KeywordItem with the bug of a sort key without the paper's id
KeywordItem_without_id(kw, arxiv_id, title, cats, published) ==
    [NoAttrs EXCEPT
        !.PK = KEYWORD_ \o kw,
        !.SK = KW_ \o kw,
        !.type = "KW",
        !.arxiv_id = arxiv_id,
        !.title = title,
        !.categories = cats,
        !.published = published,
        !.token = kw,
        !.GSI3PK = KEYWORD_ \o kw,
        !.GSI3SK = published \o HASH \o arxiv_id,
        !.attrs = {"PK", "SK", "type", "arxiv_id", "title", "categories",
                   "published", "token", "GSI3PK", "GSI3SK"}]

\* the item of one keyword, found through KeywordIndex
KeywordItem(kw, arxiv_id, title, cats, published) ==
    [NoAttrs EXCEPT
        !.PK = KEYWORD_ \o kw,
        !.SK = KW_ \o arxiv_id \o HASH \o kw,
        !.type = "KW",
        !.arxiv_id = arxiv_id,
        !.title = title,
        !.categories = cats,
        !.published = published,
        !.token = kw,
        !.GSI3PK = KEYWORD_ \o kw,
        !.GSI3SK = published \o HASH \o arxiv_id,
        !.attrs = {"PK", "SK", "type", "arxiv_id", "title", "categories",
                   "published", "token", "GSI3PK", "GSI3SK"}]

\* transform_paper(p): the items of p, or the KeyError of p["arxiv_id"]
\* (line 123) or of p["abstract"] (line 130) when the paper lacks that key
transform_paper(p) ==
    IF ~Has(p, "arxiv_id") \/ ~Has(p, "abstract")
    THEN [status |-> "KeyError", items |-> <<>>]
    ELSE LET arxiv_id == p.arxiv_id
             title == Get(p, "title", <<>>)
             authors == Get(p, "authors", <<>>)
             cats == Get(p, "categories", <<>>)
             abstract == Get(p, "abstract", <<>>)
             published == Get(p, "published", <<>>)
             keywords == extract_keywords(p.abstract, TopK)
         IN [status |-> "ok",
             items |->
                 [i \in 1..Len(cats) |->
                     CategoryItem(cats[i], arxiv_id, title, authors, abstract, cats,
                                  keywords, published)]
                 \o [i \in 1..Len(authors) |->
                     AuthorItem(authors[i], arxiv_id, title, cats, published)]
                 \o [i \in 1..Len(keywords) |->
                     KeywordItem(keywords[i], arxiv_id, title, cats, published)]]

(***************************************************************************)
(* The table: a set of items, at most one for each primary key (PK, SK).   *)
(***************************************************************************)
Key(item) == <<item.PK, item.SK>>

\* PutItem: the item replaces the stored item of the same primary key
PutItem(table, item) == {x \in table : Key(x) # Key(item)} \cup {item}

RECURSIVE PutAll(_, _)
PutAll(table, batch) ==
    IF batch = <<>> THEN table
    ELSE PutAll(PutItem(table, Head(batch)), Tail(batch))

\* BatchWriteItem rejects a request that names one primary key twice
HasDuplicateKeys(batch) ==
    \E i, j \in 1..Len(batch) : i < j /\ Key(batch[i]) = Key(batch[j])

\* batch_write_item with the bug of taking an unanswered request for written
batch_write_item_unchecked(table, batch, up) ==
    IF ~up THEN [error |-> "", table |-> table]
    ELSE IF HasDuplicateKeys(batch)
         THEN [error |-> "ValidationException", table |-> table]
         ELSE [error |-> "", table |-> PutAll(table, batch)]

\* One BatchWriteItem request as the batch writer sees it end (items the
\* store hands back unprocessed are sent again by the writer until they are
\* written); up is whether the store answers the request.  A rejected or
\* unanswered request writes nothing and raises.
batch_write_item(table, batch, up) ==
    IF ~up THEN [error |-> "ClientError", table |-> table]
    ELSE IF HasDuplicateKeys(batch)
         THEN [error |-> "ValidationException", table |-> table]
         ELSE [error |-> "", table |-> PutAll(table, batch)]

\* the number of put requests the batch writer sends in one request
FlushAmount == 25

\* BatchWriter._flush: send the first FlushAmount buffered items.
\* w is the writer and the table it writes: [table, buffer, error].
Flush(w, up) ==
    LET n == Min(FlushAmount, Len(w.buffer))
        r == batch_write_item(w.table, SubSeq(w.buffer, 1, n), up)
    IN [table |-> r.table,
        buffer |-> SubSeq(w.buffer, n + 1, Len(w.buffer)),
        error |-> r.error]

\* batch.put_item(Item=item): buffer the item, flush a full buffer
put_item(w, item, up) ==
    LET w1 == [w EXCEPT !.buffer = Append(@, item)]
    IN IF Len(w1.buffer) >= FlushAmount THEN Flush(w1, up) ELSE w1

\* BatchWriter.__exit__: flush until the buffer is empty; a flush that
\* raises ends it
RECURSIVE Exit(_, _)
Exit(w, up) ==
    IF w.buffer = <<>> THEN w
    ELSE LET w1 == Flush(w, up)
         IN IF w1.error # "" THEN w1 ELSE Exit(w1, up)

\* for item in items: batch.put_item(Item=item); total_items_written += 1
\* r is [w, total]; a put_item that raises ends the loop
RECURSIVE PutItems(_, _, _)
PutItems(r, items, up) ==
    IF items = <<>> THEN r
    ELSE LET w1 == put_item(r.w, Head(items), up)
         IN IF w1.error # "" THEN [r EXCEPT !.w = w1]
            ELSE PutItems([w |-> w1, total |-> r.total + 1], Tail(items), up)

\* round(n / d, 2) in hundredths, halves to the even neighbour (with
\* d < 8 no quotient lies halfway between two hundredths)
Round2(n, d) ==
    LET q == (100 * n) \div d
        r == (100 * n) % d
    IN IF 2 * r > d \/ (2 * r = d /\ q % 2 = 1) THEN q + 1 ELSE q

(***************************************************************************)
(* The store's Query, as the queries below use it.                         *)
(***************************************************************************)
\* the key schema of the table ("") and of its three indexes (create_table)
HashKey(index) ==
    CASE index = "" -> "PK"
      [] index = "AuthorIndex" -> "GSI1PK"
      [] index = "PaperIdIndex" -> "GSI2PK"
      [] index = "KeywordIndex" -> "GSI3PK"

\* "" for PaperIdIndex, which has no sort key
RangeKey(index) ==
    CASE index = "" -> "SK"
      [] index = "AuthorIndex" -> "GSI1SK"
      [] index = "PaperIdIndex" -> ""
      [] index = "KeywordIndex" -> "GSI3SK"

\* an index holds the items that have its key attributes
InIndex(item, index) ==
    /\ HashKey(index) \in item.attrs
    /\ RangeKey(index) = "" \/ RangeKey(index) \in item.attrs

\* the item with only the attributes of keep
Restrict(item, keep) ==
    [f \in DOMAIN NoAttrs |->
        IF f = "attrs" THEN item.attrs \cap keep
        ELSE IF f \in item.attrs \cap keep THEN item[f] ELSE NoAttrs[f]]

\* AuthorIndex projects its keys, the table's keys and four attributes; the
\* other two indexes project ALL
Projected(item, index) ==
    IF index = "AuthorIndex"
    THEN Restrict(item, {"PK", "SK", "GSI1PK", "GSI1SK",
                         "arxiv_id", "title", "categories", "published"})
    ELSE item

NoRange == [use |-> FALSE, lo |-> <<>>, hi |-> <<>>]

\* Key(...).between(lo, hi)
Between(lo, hi) == [use |-> TRUE, lo |-> lo, hi |-> hi]

Reverse(q) == [i \in 1..Len(q) |-> q[Len(q) + 1 - i]]

\* the first limit items; limit 0 stands for a query without Limit
Take(q, limit) == IF limit = 0 THEN q ELSE SubSeq(q, 1, Min(limit, Len(q)))

\* The Items a Query may answer with: the items of the index whose hash key
\* is pk and whose sort key lies in the range, in ascending order of the sort
\* key (descending with ScanIndexForward=False), cut to Limit.  The order of
\* items the sort key does not tell apart is the store's choice.
Query(tbl, index, pk, range, forward, limit) ==
    LET hk == HashKey(index)
        rk == RangeKey(index)
        M == {Projected(x, index) :
                 x \in {y \in tbl :
                           /\ InIndex(y, index)
                           /\ y[hk] = pk
                           /\ range.use => /\ StrLeq(range.lo, y[rk])
                                           /\ StrLeq(y[rk], range.hi)}}
        ascending == {q \in Orderings(M) :
                         \A i, j \in 1..Len(q) :
                             (i < j /\ rk # "") => StrLeq(q[i][rk], q[j][rk])}
    IN {Take(IF forward THEN q ELSE Reverse(q), limit) : q \in ascending}

(***************************************************************************)
(* query_papers.py                                                         *)
(***************************************************************************)
query_recent_in_category(tbl, category, limit) ==
    Query(tbl, "", CATEGORY_ \o category, NoRange, FALSE, limit)

\* query_papers_by_author with the bug of lowercasing the name, as the
\* keyword query does its keyword
query_papers_by_author_lowercased(tbl, author_name) ==
    Query(tbl, "AuthorIndex", AUTHOR_ \o Lower(author_name), NoRange, TRUE, 0)

query_papers_by_author(tbl, author_name) ==
    Query(tbl, "AuthorIndex", AUTHOR_ \o author_name, NoRange, TRUE, 0)

\* response['Items'][0] if response['Items'] else []: the set of the values
\* it may return, the empty list being <<>> and an item x being <<x>>
get_paper_by_id(tbl, arxiv_id) ==
    {IF q = <<>> THEN <<>> ELSE <<q[1]>> :
        q \in Query(tbl, "PaperIdIndex", ARXIV_ID_ \o arxiv_id, NoRange, TRUE, 0)}

query_papers_in_date_range(tbl, category, start_date, end_date) ==
    Query(tbl, "", CATEGORY_ \o category,
          Between(start_date \o HASH, end_date \o HASH_ZZZZZZZ), TRUE, 0)

query_papers_by_keyword(tbl, keyword, limit) ==
    Query(tbl, "KeywordIndex", KEYWORD_ \o Lower(keyword), NoRange, FALSE, limit)

\* one result: the dict {k: item.get(k) for k in keys}.  keys are its keys,
\* val.attrs those whose value is not None, val their values.
ResponseDict(item, keys) == [keys |-> keys, val |-> Restrict(item, keys)]

\* the keys of a result whose value is None
NullKeys(result) == result.keys \ result.val.attrs

\* the dict every branch of main builds
CliDict(item) ==
    ResponseDict(item, {"arxiv_id", "title", "authors", "published", "categories"})

Request(category, limit, name, start, end) ==
    [category |-> category, limit |-> limit, name |-> name, start |-> start,
     end |-> end]

\* the answer to a query: for the command line the JSON it prints (status
\* "ok") or the exception it dies of; for the server the HTTP status, the
\* papers and count of a 200 body or the message of an error body
Response(iface, op, req, status, results, count, message) ==
    [iface |-> iface, op |-> op, req |-> req, status |-> status, results |-> results,
     count |-> count, message |-> message]

\* main prints results and len(results)
CliOutput(op, req, items) ==
    LET results == [i \in 1..Len(items) |-> CliDict(items[i])]
    IN Response("cli", op, req, "ok", results, Len(results), "")

\* an exception ends the command
CliRaised(op, req, error) == Response("cli", op, req, error, <<>>, 0, "")

(***************************************************************************)
(* The inputs of the model.                                                *)
(***************************************************************************)
AllFields == {"arxiv_id", "title", "authors", "categories", "abstract", "published"}

Paper(present, arxiv_id, title, authors, categories, abstract, published) ==
    [present |-> present, arxiv_id |-> arxiv_id, title |-> title, authors |-> authors,
     categories |-> categories, abstract |-> abstract, published |-> published]

\* the papers a papers.json is made of
PaperPool ==
    { \* two categories, two authors, "lock" twice and "net" once
      Paper(AllFields,
            <<49>> (* "1" *),
            <<84, 49>> (* "T1" *),
            <<<<65, 110, 110>> (* "Ann" *),
              <<66, 111, 98>> (* "Bob" *)>>,
            <<<<99, 115, 46, 76, 71>> (* "cs.LG" *),
              <<99, 115, 46, 65, 73>> (* "cs.AI" *)>>,
            <<76, 111, 99, 107, 32, 97, 32, 108, 111, 99, 107, 32, 78, 101, 116>> (* "Lock a lock Net" *),
            <<50, 48, 50, 52, 45, 48, 49, 45, 48, 49>> (* "2024-01-01" *)),
      \* the most recent paper of cs.LG
      Paper(AllFields,
            <<50>> (* "2" *),
            <<84, 50>> (* "T2" *),
            <<<<65, 110, 110>> (* "Ann" *)>>,
            <<<<99, 115, 46, 76, 71>> (* "cs.LG" *)>>,
            <<84, 104, 101, 32, 78, 101, 116>> (* "The Net" *),
            <<50, 48, 50, 52, 45, 48, 49, 45, 48, 51>> (* "2024-01-03" *)),
      \* an id of eight letters z, an empty abstract
      Paper(AllFields,
            <<122, 122, 122, 122, 122, 122, 122, 122>> (* "zzzzzzzz" *),
            <<84, 51>> (* "T3" *),
            <<<<66, 111, 98>> (* "Bob" *)>>,
            <<<<99, 115, 46, 76, 71>> (* "cs.LG" *)>>,
            <<>>,
            <<50, 48, 50, 52, 45, 48, 49, 45, 48, 50>> (* "2024-01-02" *)),
      \* no abstract key
      Paper(AllFields \ {"abstract"},
            <<52>> (* "4" *),
            <<84, 52>> (* "T4" *),
            <<<<65, 110, 110>> (* "Ann" *)>>,
            <<<<99, 115, 46, 65, 73>> (* "cs.AI" *)>>,
            <<>>,
            <<50, 48, 50, 52, 45, 48, 49, 45, 48, 50>> (* "2024-01-02" *)),
      \* no arxiv_id key
      Paper(AllFields \ {"arxiv_id"},
            <<>>,
            <<84, 53>> (* "T5" *),
            <<<<66, 111, 98>> (* "Bob" *)>>,
            <<<<99, 115, 46, 76, 71>> (* "cs.LG" *)>>,
            <<110, 101, 116>> (* "net" *),
            <<50, 48, 50, 52, 45, 48, 49, 45, 48, 49>> (* "2024-01-01" *)),
      \* one category listed twice
      Paper(AllFields,
            <<54>> (* "6" *),
            <<84, 54>> (* "T6" *),
            <<<<66, 111, 98>> (* "Bob" *)>>,
            <<<<99, 115, 46, 65, 73>> (* "cs.AI" *),
              <<99, 115, 46, 65, 73>> (* "cs.AI" *)>>,
            <<108, 111, 99, 107>> (* "lock" *),
            <<50, 48, 50, 52, 45, 48, 49, 45, 48, 51>> (* "2024-01-03" *)),
      \* nothing but the id and the abstract
      Paper({"arxiv_id", "abstract"},
            <<55>> (* "7" *),
            <<>>,
            <<>>,
            <<>>,
            <<110, 101, 116, 32, 108, 111, 99, 107>> (* "net lock" *),
            <<>>),
      \* the paper "2" again under another id
      Paper(AllFields,
            <<50, 49>> (* "21" *),
            <<84, 56>> (* "T8" *),
            <<<<65, 110, 110>> (* "Ann" *)>>,
            <<<<99, 115, 46, 76, 71>> (* "cs.LG" *)>>,
            <<84, 104, 101, 32, 78, 101, 116>> (* "The Net" *),
            <<50, 48, 50, 52, 45, 48, 49, 45, 48, 51>> (* "2024-01-03" *)) }

\* the files: up to MaxPapers papers of the pool, in any order
PaperFiles ==
    UNION {{f \in [1..n -> PaperPool] : \A i, j \in 1..n : f[i] = f[j] => i = j}
           : n \in 0..MaxPapers}

\* the words the texts given to extract_keywords alone are made of
WordPool ==
    { <<98>> (* "b" *),
      <<66>> (* "B" *),
      <<99>> (* "c" *),
      <<97>> (* "a" *),
      <<84, 104, 101>> (* "The" *),
      <<99, 45, 49>> (* "c-1" *),
      <<49, 98>> (* "1b" *),
      <<98, 46, 99>> (* "b.c" *) }

\* the words of ws joined by single spaces
RECURSIVE Join(_)
Join(ws) ==
    IF ws = <<>> THEN <<>>
    ELSE IF Len(ws) = 1 THEN ws[1]
         ELSE ws[1] \o <<32>> (* " " *) \o Join(Tail(ws))

Texts == {Join(ws) : ws \in UNION {[1..n -> WordPool] : n \in 0..MaxWords}}

(***************************************************************************)
(* The state.                                                              *)
(***************************************************************************)
VARIABLES
    papers,       \* the content of papers.json
    tableExists,  \* whether the table has been created
    table,        \* the items of the table
    pc,           \* load_data.py: "idle", "loading", "done" or "failed"
    idx,          \* the number of papers the running load has put
    buffer,       \* the batch writer's buffer of items not yet sent
    total,        \* total_items_written
    out,          \* what each run of load_data.py so far has printed or raised
    lastProj,     \* the last call of transform_paper and what it returned
    resp,         \* the answer to the query made since the last load run, if any
    text,         \* extract_keywords checked alone: its text,
    topk,         \*   its topk,
    kws,          \*   what it returned,
    called        \*   and whether it has been called

loadVars == <<papers, tableExists, table, pc, idx, buffer, total, out, lastProj>>
extractVars == <<text, topk, kws, called>>
vars == <<papers, tableExists, table, pc, idx, buffer, total, out, lastProj, resp,
          text, topk, kws, called>>

NoPaper == Paper({}, <<>>, <<>>, <<>>, <<>>, <<>>, <<>>)

NoResp == Response("", "", Request(<<>>, 0, <<>>, <<>>, <<>>), "", <<>>, 0, "")

InitLoad ==
    /\ papers \in PaperFiles
    /\ tableExists = FALSE
    /\ table = {}
    /\ pc = "idle"
    /\ idx = 0
    /\ buffer = <<>>
    /\ total = 0
    /\ out = <<>>
    /\ lastProj = [called |-> FALSE, paper |-> NoPaper, status |-> "", items |-> <<>>]
    /\ resp = NoResp

Init ==
    /\ InitLoad
    /\ text = <<>>
    /\ topk = 0
    /\ kws = <<>>
    /\ called = FALSE

(***************************************************************************)
(* load_data.py: main.                                                     *)
(***************************************************************************)
\* what one run leaves on the terminal: the exception that ended it ("" for
\* none) and the paper ids its message names, whether "Created N DynamoDB
\* items" was printed and its N, whether "Denormalization factor" was printed
\* and its value in hundredths
Outcome(error, created, viewsWritten, reported, factor) ==
    [error |-> error, named |-> {}, created |-> created, viewsWritten |-> viewsWritten,
     reported |-> reported, factor |-> factor]

\* a run that an exception ends before anything is printed.  None of the
\* exceptions (KeyError of a key, the store client's errors) names a paper.
Raised(error) == Outcome(error, FALSE, 0, FALSE, 0)

\* lines 221-240: create the table, read papers.json.  CreateTable on a
\* table that exists raises ResourceInUseException.
LoadStart ==
    /\ pc # "loading"
    /\ Len(out) < MaxRuns
    /\ IF tableExists
       THEN /\ pc' = "failed"
            /\ out' = Append(out, Raised("ResourceInUseException"))
            /\ UNCHANGED <<tableExists, idx, buffer, total>>
       ELSE /\ tableExists' = TRUE
            /\ pc' = "loading"
            /\ idx' = 0
            /\ buffer' = <<>>
            /\ total' = 0
            /\ out' = out
    /\ resp' = NoResp
    /\ UNCHANGED <<papers, table, lastProj>>
    /\ UNCHANGED extractVars

\* lines 243-247: one turn of the loop over the papers.  An exception leaves
\* the with block through the batch writer's __exit__, which still flushes.
LoadPaper ==
    /\ pc = "loading"
    /\ idx < Len(papers)
    /\ \E up \in BOOLEAN :
        LET p == papers[idx + 1]
            t == transform_paper(p)
            w == [table |-> table, buffer |-> buffer, error |-> ""]
            r == PutItems([w |-> w, total |-> total], t.items, up)
            raised == IF t.status # "ok" THEN t.status ELSE r.w.error
            x == Exit([r.w EXCEPT !.error = ""], up)
        IN /\ lastProj' = [called |-> TRUE, paper |-> p, status |-> t.status,
                           items |-> t.items]
           /\ total' = r.total
           /\ IF raised = ""
              THEN /\ idx' = idx + 1
                   /\ table' = r.w.table
                   /\ buffer' = r.w.buffer
                   /\ UNCHANGED <<pc, out>>
              ELSE /\ pc' = "failed"
                   /\ table' = x.table
                   /\ buffer' = x.buffer
                   /\ out' = Append(out, Raised(IF x.error # "" THEN x.error ELSE raised))
                   /\ idx' = idx
    /\ UNCHANGED <<papers, tableExists, resp>>
    /\ UNCHANGED extractVars

\* lines 242, 249-251: the end of the with block flushes the buffer, then
\* the two lines of the report are printed
LoadFinish ==
    /\ pc = "loading"
    /\ idx = Len(papers)
    /\ \E up \in BOOLEAN :
        LET x == Exit([table |-> table, buffer |-> buffer, error |-> ""], up)
        IN /\ table' = x.table
           /\ buffer' = x.buffer
           /\ IF x.error # ""
              THEN /\ pc' = "failed"
                   /\ out' = Append(out, Raised(x.error))
              ELSE IF Len(papers) = 0
                   THEN /\ pc' = "failed"
                        /\ out' = Append(out, Outcome("ZeroDivisionError", TRUE, total,
                                                      FALSE, 0))
                   ELSE /\ pc' = "done"
                        /\ out' = Append(out, Outcome("", TRUE, total, TRUE,
                                                      Round2(total, Len(papers))))
    /\ UNCHANGED <<papers, tableExists, idx, total, lastProj, resp>>
    /\ UNCHANGED extractVars

(***************************************************************************)
(* query_papers.py: main, one action for each command.                     *)
(***************************************************************************)
\* the arguments the queries are called with
Categories ==
    { <<99, 115, 46, 76, 71>> (* "cs.LG" *),
      <<99, 115, 46, 65, 73>> (* "cs.AI" *) }
Names ==
    { <<65, 110, 110>> (* "Ann" *),
      <<66, 111, 98>> (* "Bob" *),
      <<97, 110, 110>> (* "ann" *) }
Ids ==
    { <<49>> (* "1" *),
      <<50>> (* "2" *),
      <<122, 122, 122, 122, 122, 122, 122, 122>> (* "zzzzzzzz" *),
      <<54>> (* "6" *),
      <<57>> (* "9" *) }
Dates ==
    { <<50, 48, 50, 52, 45, 48, 49, 45, 48, 49>> (* "2024-01-01" *),
      <<50, 48, 50, 52, 45, 48, 49, 45, 48, 50>> (* "2024-01-02" *),
      <<50, 48, 50, 52, 45, 48, 49, 45, 48, 51>> (* "2024-01-03" *) }
Keywords ==
    { <<108, 111, 99, 107>> (* "lock" *),
      <<76, 111, 99, 107>> (* "Lock" *),
      <<110, 101, 116>> (* "net" *) }
\* --limit of the command line, 10 when it is not given
CliLimits == {1, 2, 10}
\* ?limit= of the server, <<>> when it is not given
LimitArgs ==
    { <<>>,
      <<49>> (* "1" *),
      <<50>> (* "2" *),
      <<120>> (* "x" *) }

\* A query is answered while no load run is writing the table, and its
\* answer is kept until the next load run starts.
Quiet == pc # "loading" /\ resp = NoResp

\* recent <category> [--limit N]: main queries with limit=10 whatever N is
CliRecent ==
    /\ Quiet
    /\ \E category \in Categories, limit \in CliLimits :
        LET req == Request(category, limit, <<>>, <<>>, <<>>)
        IN IF ~tableExists
           THEN resp' = CliRaised("recent", req, "ResourceNotFoundException")
           ELSE \E items \in query_recent_in_category(table, category, 10) :
                    resp' = CliOutput("recent", req, items)
    /\ UNCHANGED loadVars
    /\ UNCHANGED extractVars

\* author <author_name>
CliAuthor ==
    /\ Quiet
    /\ \E author_name \in Names :
        LET req == Request(<<>>, 0, author_name, <<>>, <<>>)
        IN IF ~tableExists
           THEN resp' = CliRaised("author", req, "ResourceNotFoundException")
           ELSE \E items \in query_papers_by_author(table, author_name) :
                    resp' = CliOutput("author", req, items)
    /\ UNCHANGED loadVars
    /\ UNCHANGED extractVars

\* get <arxiv_id>: results is one dict, built by items.get(...), which the
\* empty list does not have; the count printed is 1
CliGet ==
    /\ Quiet
    /\ \E arxiv_id \in Ids :
        LET req == Request(<<>>, 0, arxiv_id, <<>>, <<>>)
        IN IF ~tableExists
           THEN resp' = CliRaised("get", req, "ResourceNotFoundException")
           ELSE \E items \in get_paper_by_id(table, arxiv_id) :
                    resp' = IF items = <<>>
                            THEN CliRaised("get", req, "AttributeError")
                            ELSE Response("cli", "get", req, "ok",
                                          <<CliDict(items[1])>>, 1, "")
    /\ UNCHANGED loadVars
    /\ UNCHANGED extractVars

\* daterange <category> <start_date> <end_date>.  The store rejects a
\* BETWEEN whose upper bound is below its lower bound.
CliDaterange ==
    /\ Quiet
    /\ \E category \in Categories, start_date \in Dates, end_date \in Dates :
        LET req == Request(category, 0, <<>>, start_date, end_date)
        IN IF ~tableExists
           THEN resp' = CliRaised("daterange", req, "ResourceNotFoundException")
           ELSE IF StrLess(end_date \o HASH_ZZZZZZZ, start_date \o HASH)
                THEN resp' = CliRaised("daterange", req, "ValidationException")
                ELSE \E items \in query_papers_in_date_range(table, category,
                                                             start_date, end_date) :
                         resp' = CliOutput("daterange", req, items)
    /\ UNCHANGED loadVars
    /\ UNCHANGED extractVars

\* keyword <keyword> [--limit N]: main queries with limit=10 whatever N is
CliKeyword ==
    /\ Quiet
    /\ \E keyword \in Keywords, limit \in CliLimits :
        LET req == Request(<<>>, limit, keyword, <<>>, <<>>)
        IN IF ~tableExists
           THEN resp' = CliRaised("keyword", req, "ResourceNotFoundException")
           ELSE \E items \in query_papers_by_keyword(table, keyword, 10) :
                    resp' = CliOutput("keyword", req, items)
    /\ UNCHANGED loadVars
    /\ UNCHANGED extractVars

(***************************************************************************)
(* api_server.py: the handlers.  Each is the set of the responses it may   *)
(* send; do_GET answers any exception with 500 "Server errors".            *)
(***************************************************************************)
\* int(s) for a string of decimal digits
RECURSIVE IntValue(_)
IntValue(s) ==
    IF s = <<>> THEN 0
    ELSE 10 * IntValue(SubSeq(s, 1, Len(s) - 1)) + (s[Len(s)] - 48)

\* int(s): the value, or ValueError (ok is FALSE)
ParseInt(s) ==
    IF s # <<>> /\ \A i \in 1..Len(s) : IsDigit(s[i])
    THEN [ok |-> TRUE, value |-> IntValue(s)]
    ELSE [ok |-> FALSE, value |-> 0]

\* _send_error(500, "Server errors") of do_GET
ServerError(op, req) == Response("api", op, req, "500", <<>>, 0, "Server errors")

\* _send_error(404, message)
NotFound(op, req, message) == Response("api", op, req, "404", <<>>, 0, message)

\* the end of four handlers: 404 when papers is empty, else 200 with the
\* papers and count = len(papers)
ApiOutput(op, req, items, keys, message) ==
    LET found == [i \in 1..Len(items) |-> ResponseDict(items[i], keys)]
    IN IF found = <<>> THEN NotFound(op, req, message)
       ELSE Response("api", op, req, "200", found, Len(found), "")

\* GET /papers/recent?category={category}&limit={limit}
handle_recent(category, limitArg) ==
    LET limit == ParseInt(IF limitArg = <<>> THEN <<49, 48>> (* "10" *) ELSE limitArg)
        req == Request(category, limit.value, <<>>, <<>>, <<>>)
    IN IF ~limit.ok THEN {ServerError("recent", req)}
       ELSE IF category = <<>>
            THEN {NotFound("recent", req, "Missing query parameter: category")}
       ELSE IF ~tableExists \/ limit.value < 1 THEN {ServerError("recent", req)}
       ELSE {ApiOutput("recent", req, items,
                       {"arxiv_id", "title", "authors", "published"},
                       "Invalid category") :
                items \in Query(table, "", CATEGORY_ \o category, NoRange, FALSE,
                                limit.value)}

\* GET /papers/author/{author_name}
handle_author(author_name) ==
    LET req == Request(<<>>, 0, author_name, <<>>, <<>>)
    IN IF author_name = <<>>
       THEN {NotFound("author", req, "Missing query parameter: author_name")}
       ELSE IF ~tableExists THEN {ServerError("author", req)}
       ELSE {ApiOutput("author", req, items,
                       {"arxiv_id", "title", "categories", "published"},
                       "Invalid author_name") :
                items \in Query(table, "AuthorIndex", AUTHOR_ \o author_name,
                                NoRange, TRUE, 0)}

\* GET /papers/{arxiv_id}: papers is every item the index returns, as
\* stored, and count is 1
handle_get_by_id(arxiv_id) ==
    LET req == Request(<<>>, 0, arxiv_id, <<>>, <<>>)
    IN IF arxiv_id = <<>>
       THEN {NotFound("get", req, "Missing query parameter: arxiv_id")}
       ELSE IF ~tableExists THEN {ServerError("get", req)}
       ELSE {IF items = <<>> THEN NotFound("get", req, "Invalid arxiv_id")
             ELSE Response("api", "get", req, "200",
                           [i \in 1..Len(items) |->
                               [keys |-> items[i].attrs, val |-> items[i]]],
                           1, "") :
                items \in Query(table, "PaperIdIndex", ARXIV_ID_ \o arxiv_id,
                                NoRange, TRUE, 0)}

\* GET /papers/search?category={category}&start={date}&end={date}
handle_search(category, start, end) ==
    LET req == Request(category, 0, <<>>, start, end)
    IN IF category = <<>> \/ start = <<>> \/ end = <<>>
       THEN {NotFound("daterange", req, "Missing query parameters: category, start, end")}
       ELSE IF ~tableExists \/ StrLess(end \o HASH_ZZZZZZZ, start \o HASH)
            THEN {ServerError("daterange", req)}
       ELSE {ApiOutput("daterange", req, items,
                       {"arxiv_id", "title", "authors", "categories", "published"},
                       "Invalid category, start, end") :
                items \in Query(table, "", CATEGORY_ \o category,
                                Between(start \o HASH, end \o HASH_ZZZZZZZ), TRUE, 0)}

\* GET /papers/keyword/{keyword}?limit={limit}
handle_keyword(keyword, limitArg) ==
    LET limit == ParseInt(IF limitArg = <<>> THEN <<49, 48>> (* "10" *) ELSE limitArg)
        req == Request(<<>>, limit.value, keyword, <<>>, <<>>)
    IN IF ~limit.ok THEN {ServerError("keyword", req)}
       ELSE IF keyword = <<>>
            THEN {NotFound("keyword", req, "Missing query parameter: keyword")}
       ELSE IF ~tableExists \/ limit.value < 1 THEN {ServerError("keyword", req)}
       ELSE {ApiOutput("keyword", req, items,
                       {"arxiv_id", "title", "authors", "categories", "published"},
                       "Invalid keyword") :
                items \in Query(table, "KeywordIndex", KEYWORD_ \o Lower(keyword),
                                NoRange, FALSE, limit.value)}

\* a parameter of the query string that is not given
Absent == <<>>

ApiRecent ==
    /\ Quiet
    /\ \E category \in Categories \cup {Absent}, limitArg \in LimitArgs :
        resp' \in handle_recent(category, limitArg)
    /\ UNCHANGED loadVars
    /\ UNCHANGED extractVars

ApiAuthor ==
    /\ Quiet
    /\ \E author_name \in Names : resp' \in handle_author(author_name)
    /\ UNCHANGED loadVars
    /\ UNCHANGED extractVars

ApiGetById ==
    /\ Quiet
    /\ \E arxiv_id \in Ids : resp' \in handle_get_by_id(arxiv_id)
    /\ UNCHANGED loadVars
    /\ UNCHANGED extractVars

ApiSearch ==
    /\ Quiet
    /\ \E category \in Categories \cup {Absent}, start \in Dates \cup {Absent},
          end \in Dates \cup {Absent} :
        resp' \in handle_search(category, start, end)
    /\ UNCHANGED loadVars
    /\ UNCHANGED extractVars

ApiKeyword ==
    /\ Quiet
    /\ \E keyword \in Keywords, limitArg \in LimitArgs :
        resp' \in handle_keyword(keyword, limitArg)
    /\ UNCHANGED loadVars
    /\ UNCHANGED extractVars

(***************************************************************************)
(* extract_keywords checked alone, on the texts of Texts.                  *)
(***************************************************************************)
InitExtract ==
    /\ papers = <<>>
    /\ tableExists = FALSE
    /\ table = {}
    /\ pc = "idle"
    /\ idx = 0
    /\ buffer = <<>>
    /\ total = 0
    /\ out = <<>>
    /\ lastProj = [called |-> FALSE, paper |-> NoPaper, status |-> "", items |-> <<>>]
    /\ resp = NoResp
    /\ text \in Texts
    /\ topk \in 0..MaxTopK
    /\ kws = <<>>
    /\ called = FALSE

ExtractCall ==
    /\ ~called
    /\ kws' = extract_keywords(text, topk)
    /\ called' = TRUE
    /\ UNCHANGED <<text, topk, resp>>
    /\ UNCHANGED loadVars

NextExtract == ExtractCall

SpecExtract == InitExtract /\ [][NextExtract]_vars

(***************************************************************************)
(* The specifications.                                                     *)
(***************************************************************************)
Next ==
    \/ LoadStart
    \/ LoadPaper
    \/ LoadFinish
    \/ CliRecent
    \/ CliAuthor
    \/ CliGet
    \/ CliDaterange
    \/ CliKeyword
    \/ ApiRecent
    \/ ApiAuthor
    \/ ApiGetById
    \/ ApiSearch
    \/ ApiKeyword

Spec == Init /\ [][Next]_vars

(***************************************************************************)
(* Vocabulary of the properties.                                           *)
(***************************************************************************)
\* the value a field of a paper has for a reader: an absent field is empty
FieldOf(p, f) == IF f \in p.present THEN p[f] ELSE <<>>

\* s[i..j] is a letter followed by letters, digits and hyphens
IsRun(s, i, j) ==
    /\ i <= j
    /\ IsLetter(s[i])
    /\ \A k \in (i + 1)..j : IsLetter(s[k]) \/ IsDigit(s[k]) \/ s[k] = 45

\* ... and no longer stretch of s around it is
IsMaximalRun(s, i, j) ==
    /\ IsRun(s, i, j)
    /\ j = Len(s) \/ ~IsRun(s, i, j + 1)
    /\ \A h \in 1..(i - 1) : ~IsRun(s, h, j)

MaximalRuns(s) == {r \in (1..Len(s)) \X (1..Len(s)) : IsMaximalRun(s, r[1], r[2])}

\* the run in lowercase
WordAt(s, r) == Lower(Slice(s, r[1], r[2]))

\* the words of s that are not stopwords
Candidates(s) == {WordAt(s, r) : r \in MaximalRuns(s)} \ STOPWORDS

\* where the word w starts in s
Occurrences(s, w) == {r[1] : r \in {q \in MaximalRuns(s) : WordAt(s, q) = w}}

Frequency(s, w) == Cardinality(Occurrences(s, w))

FirstOccurrence(s, w) == CHOOSE i \in Occurrences(s, w) : \A j \in Occurrences(s, w) : i <= j

\* v is more frequent in s than w, or as frequent and first seen earlier
Outranks(s, v, w) ==
    \/ Frequency(s, v) > Frequency(s, w)
    \/ Frequency(s, v) = Frequency(s, w) /\ FirstOccurrence(s, v) < FirstOccurrence(s, w)

\* the store answered the query of resp: the command printed its JSON, the
\* server sent 200 or the 404 it sends for an empty answer
Answered ==
    \/ resp.status \in {"ok", "200"}
    \/ resp.status = "404" /\ resp.message \in
           {"Invalid category", "Invalid author_name", "Invalid arxiv_id",
            "Invalid category, start, end", "Invalid keyword"}

\* the sort key "published#id" of the view a result was made from
SortKeyOf(result) == result.val.published \o HASH \o result.val.arxiv_id

\* the category views of category c in the table
CategoryViews(c) == {x \in table : x.PK = CATEGORY_ \o c}

\* the query of resp has every argument it needs, well formed
WellFormed ==
    CASE resp.op = "recent" -> resp.req.category # <<>> /\ resp.req.limit >= 1
      [] resp.op = "author" -> resp.req.name # <<>>
      [] resp.op = "get" -> resp.req.name # <<>>
      [] resp.op = "daterange" ->
            /\ resp.req.category # <<>> /\ resp.req.start # <<>> /\ resp.req.end # <<>>
            /\ StrLeq(resp.req.start, resp.req.end)
      [] resp.op = "keyword" -> resp.req.name # <<>> /\ resp.req.limit >= 1
      [] OTHER -> FALSE

\* the stored items the query of resp asks for
Matches ==
    CASE resp.op = "recent" -> CategoryViews(resp.req.category)
      [] resp.op = "author" ->
            {x \in table : "GSI1PK" \in x.attrs /\ x.GSI1PK = AUTHOR_ \o resp.req.name}
      [] resp.op = "get" ->
            {x \in table : "GSI2PK" \in x.attrs /\ x.GSI2PK = ARXIV_ID_ \o resp.req.name}
      [] resp.op = "daterange" ->
            {x \in CategoryViews(resp.req.category) :
                /\ StrLeq(resp.req.start \o HASH, x.SK)
                /\ StrLeq(x.SK, resp.req.end \o HASH_ZZZZZZZ)}
      [] resp.op = "keyword" ->
            {x \in table :
                "GSI3PK" \in x.attrs /\ x.GSI3PK = KEYWORD_ \o Lower(resp.req.name)}
      [] OTHER -> {}

\* the view records of the papers of the file that are not in the table
Unwritten ==
    {x \in UNION {Range(transform_paper(papers[i]).items) : i \in 1..Len(papers)} :
        ~\E y \in table : Key(y) = Key(x)}

\* the exceptions of a batch write that failed
WriteErrors == {"ClientError", "ValidationException"}

(***************************************************************************)
(* The properties.                                                         *)
(***************************************************************************)

\* C1: a paper that has an id is projected, and into exactly
\* len(categories) + len(authors) + len(extract(abstract, 10)) view records.
\* Fails: a paper with an id and no abstract key is not projected at all
\* (KeyError at line 130).
C1_ProjectionCount ==
    (lastProj.called /\ Has(lastProj.paper, "arxiv_id")) =>
        /\ lastProj.status = "ok"
        /\ Len(lastProj.items) =
               Len(FieldOf(lastProj.paper, "categories"))
               + Len(FieldOf(lastProj.paper, "authors"))
               + Len(extract_keywords(FieldOf(lastProj.paper, "abstract"), 10))

\* C2: an answered date-range query with start <= end returns every stored
\* category view of the category whose (fixed-width) date lies in
\* [start, end], whatever its id, and no view dated outside.
\* Fails: a view whose id sorts above "zzzzzzz" and whose date is end.
C2_DateRangeInclusive ==
    (resp.op = "daterange" /\ Answered /\ StrLeq(resp.req.start, resp.req.end)) =>
        /\ \A x \in CategoryViews(resp.req.category) :
               (/\ Len(x.published) = Len(resp.req.start)
                /\ StrLeq(resp.req.start, x.published)
                /\ StrLeq(x.published, resp.req.end))
               => \E i \in 1..Len(resp.results) : SortKeyOf(resp.results[i]) = x.SK
        /\ \A i \in 1..Len(resp.results) :
               /\ StrLeq(resp.req.start, resp.results[i].val.published)
               /\ StrLeq(resp.results[i].val.published, resp.req.end)

\* C3: a successful by-id query returns exactly one result, whose id is the
\* requested id, and count 1.
\* Fails: the server returns every category view of a paper of two categories.
C3_ByIdOneResult ==
    (resp.op = "get" /\ resp.status \in {"ok", "200"}) =>
        /\ Len(resp.results) = 1
        /\ resp.results[1].val.arxiv_id = resp.req.name
        /\ resp.count = 1

\* C4: an answered recent-by-category query with limit L returns the
\* min(L, n) category views of the greatest sort keys, in descending order.
\* Fails: the command line queries with limit 10 whatever L is.
C4_RecentTopL ==
    (resp.op = "recent" /\ Answered) =>
        LET V == CategoryViews(resp.req.category)
            n == Len(resp.results)
        IN /\ n = Min(resp.req.limit, Cardinality(V))
           /\ \A i, j \in 1..n :
                  i < j => StrLess(SortKeyOf(resp.results[j]), SortKeyOf(resp.results[i]))
           /\ \A x \in V :
                  \/ \E i \in 1..n : SortKeyOf(resp.results[i]) = x.SK
                  \/ \A i \in 1..n : StrLess(x.SK, SortKeyOf(resp.results[i]))

\* C5: extract(text, k) returns at most k tokens, none a stopword, each in
\* lowercase and a maximal run letter(letter|digit|hyphen)* of the text;
\* a text without a word that is not a stopword yields the empty sequence.
C5_ExtractBounded ==
    called =>
        /\ Len(kws) <= topk
        /\ \A i \in 1..Len(kws) :
               /\ kws[i] \notin STOPWORDS
               /\ kws[i] = Lower(kws[i])
               /\ \E r \in MaximalRuns(text) : kws[i] = WordAt(text, r)
        /\ Candidates(text) = {} => kws = <<>>

\* C5's case: the text has a stopword and more other words than k >= 1
C5_Witness ==
    /\ called
    /\ topk >= 1
    /\ Len(kws) = topk
    /\ Cardinality(Candidates(text)) > topk
    /\ \E r \in MaximalRuns(text) : WordAt(text, r) \in STOPWORDS

\* C6: extract returns the min(k, number of words) best words, a word being
\* better than another when it is more frequent or, at equal frequency, when
\* its first occurrence is earlier; the result lists them best first.
C6_TieBreakFirstOccurrence ==
    called =>
        /\ Len(kws) = Min(topk, Cardinality(Candidates(text)))
        /\ \A i, j \in 1..Len(kws) : i < j => Outranks(text, kws[i], kws[j])
        /\ \A w \in Candidates(text) \ Range(kws) :
               \A i \in 1..Len(kws) : Outranks(text, kws[i], w)

\* C6's case: the cut falls in a tie, and keeps the word that is greater in
\* lexicographic order
C6_Witness ==
    /\ called
    /\ \E v \in Range(kws), w \in Candidates(text) \ Range(kws) :
           /\ Frequency(text, v) = Frequency(text, w)
           /\ StrLess(w, v)

\* C7: every view record of a projected paper has the id, title, categories
\* and published of the paper (an absent field of the paper being empty).
C7_ViewsCarryPaperFields ==
    lastProj.called =>
        \A i \in 1..Len(lastProj.items) :
            LET x == lastProj.items[i]
                p == lastProj.paper
            IN /\ {"arxiv_id", "title", "categories", "published"} \subseteq x.attrs
               /\ x.arxiv_id = FieldOf(p, "arxiv_id")
               /\ x.title = FieldOf(p, "title")
               /\ x.categories = FieldOf(p, "categories")
               /\ x.published = FieldOf(p, "published")

\* C7's case: a paper projected into views of all three kinds
C7_Witness ==
    /\ lastProj.called
    /\ \E i, j, k \in 1..Len(lastProj.items) :
           /\ "GSI2PK" \in lastProj.items[i].attrs
           /\ lastProj.items[j].type = "AUTHOR"
           /\ lastProj.items[k].type = "KW"
           /\ Len(lastProj.items[i].categories) >= 2

\* C8: a second load of the same file after a first that succeeded reports
\* the same viewsWritten and the same denormalizationFactor.
\* Fails: the second run dies in create_table, the table being there.
C8_ReloadSameReport ==
    (Len(out) >= 2 /\ out[1].error = "") => out[2] = out[1]

C10_EmptyIsSuccess ==
    (resp.op # "" /\ tableExists /\ WellFormed) =>
        /\ Matches = {} =>
               /\ resp.status \in {"ok", "200"}
               /\ resp.results = <<>>
               /\ resp.count = 0
        /\ resp.status \in {"ok", "200"} => resp.count = Len(resp.results)

\* the internal key fields of a view record
KeyFields == {"PK", "SK", "GSI1PK", "GSI1SK", "GSI2PK", "GSI3PK", "GSI3SK"}

\* C11: no result of a query that reports success has a key field of the view
\* record (PK, SK, GSI1PK, GSI1SK, GSI2PK, GSI3PK, GSI3SK).
\* Fails: the server's by-id answer is the stored items as they are.
C11_NoKeyFields ==
    resp.status \in {"ok", "200"} =>
        \A i \in 1..Len(resp.results) : resp.results[i].keys \cap KeyFields = {}

\* the first load run has ended, and not by a failed batch write
FirstRunOver == pc \in {"done", "failed"} /\ out # <<>> /\ out[1].error \notin WriteErrors

\* C12: a paper without id is projected into no view record, and a load run
\* over a file with such a paper still writes the views of every paper of the
\* file that can be projected.
\* Fails: the KeyError of the paper without id ends the whole run, and the
\* papers after it are never projected.
C12_MissingIdAbortsPaperOnly ==
    (FirstRunOver /\ \E i \in 1..Len(papers) : ~Has(papers[i], "arxiv_id")) =>
        \A i \in 1..Len(papers) :
            LET t == transform_paper(papers[i])
            IN /\ ~Has(papers[i], "arxiv_id") => t.status # "ok" /\ t.items = <<>>
               /\ t.status = "ok" => Range(t.items) \subseteq table

\* the items of one kind among the items of a paper
CategoryItemsOf(items) == SelectSeq(items, LAMBDA x : "GSI2PK" \in x.attrs)
AuthorItemsOf(items) == SelectSeq(items, LAMBDA x : x.type = "AUTHOR")
KeywordItemsOf(items) == SelectSeq(items, LAMBDA x : x.type = "KW")

\* C13: a paper that has an id is projected whatever other field is absent
\* or empty: into one category view for each category, one author view for
\* each author (none when the field is absent or empty), and the keyword
\* views of extract(abstract, 10).
\* Fails: a paper without abstract key is not projected (KeyError, line 130).
C13_ProjectionTotal ==
    (lastProj.called /\ Has(lastProj.paper, "arxiv_id")) =>
        LET p == lastProj.paper
            kw == KeywordItemsOf(lastProj.items)
        IN /\ lastProj.status = "ok"
           /\ Len(CategoryItemsOf(lastProj.items)) = Len(FieldOf(p, "categories"))
           /\ Len(AuthorItemsOf(lastProj.items)) = Len(FieldOf(p, "authors"))
           /\ [i \in 1..Len(kw) |-> kw[i].token]
                  = extract_keywords(FieldOf(p, "abstract"), 10)

\* C14: two view records that a load run has put, of papers with distinct
\* ids and published dates of the same width, never have the same primary
\* key; and a load run that ended with its report left in the table exactly
\* the view records of the papers of the file, none overwritten by another,
\* whatever the order of the file.
C14_DistinctPapersDistinctKeys ==
    /\ \A i, j \in 1..Len(buffer) :
           (/\ buffer[i].arxiv_id # buffer[j].arxiv_id
            /\ Len(buffer[i].published) = Len(buffer[j].published))
           => Key(buffer[i]) # Key(buffer[j])
    /\ pc = "done" =>
           table = UNION {Range(transform_paper(papers[i]).items) : i \in 1..Len(papers)}

\* C14's case: a load wrote two papers that differ in their id alone, so that
\* their views share every partition and every date
C14_Witness ==
    /\ pc = "done"
    /\ \E x, y \in table : x.arxiv_id # y.arxiv_id /\ x.PK = y.PK /\ x.type = "KW"
    /\ \E x, y \in table :
           /\ x.arxiv_id # y.arxiv_id /\ x.PK = y.PK /\ x.type = "AUTHOR"
           /\ x.published = y.published
    /\ \E x, y \in table :
           /\ x.arxiv_id # y.arxiv_id /\ x.PK = y.PK /\ "GSI2PK" \in x.attrs
           /\ x.published = y.published

\* the query of resp lacks an argument, or its limit is not an integer (the
\* server's handlers then have no limit: the request records 0)
BadArguments ==
    CASE resp.op = "recent" -> resp.req.category = <<>> \/ resp.req.limit = 0
      [] resp.op = "daterange" ->
            resp.req.category = <<>> \/ resp.req.start = <<>> \/ resp.req.end = <<>>
      [] resp.op = "keyword" -> resp.req.name = <<>> \/ resp.req.limit = 0
      [] resp.op \in {"author", "get"} -> resp.req.name = <<>>
      [] OTHER -> FALSE

\* the statuses of a client error
ClientErrors == {"400", "404", "422"}

\* C15: a query with a missing argument or a limit that is not an integer is
\* answered with a client error and no result, never with a server error.
\* Fails: int() of the limit raises ValueError, which do_GET answers with 500.
C15_BadArgumentIsClientError ==
    BadArguments =>
        /\ resp.status \in ClientErrors
        /\ resp.status # "500"
        /\ resp.results = <<>>

\* the keyword views of the table for the keyword of resp, in lowercase
KeywordViews == {x \in table : x.type = "KW" /\ x.token = Lower(resp.req.name)}

\* C17: an answered by-keyword query with limit L returns the min(L, n)
\* keyword views of the keyword in lowercase that have the greatest
\* published#id, in descending order; so, after a load that reported, with L
\* at least n it returns every paper of the file that has the keyword among
\* extract(abstract, 10), whatever the letter case of the query.
\* Fails: the command line queries with limit 10 whatever L is.
C17_KeywordLookup ==
    (resp.op = "keyword" /\ Answered) =>
        LET V == KeywordViews
            n == Len(resp.results)
        IN /\ n = Min(resp.req.limit, Cardinality(V))
           /\ \A i, j \in 1..n :
                  i < j => StrLess(SortKeyOf(resp.results[j]), SortKeyOf(resp.results[i]))
           /\ \A i \in 1..n : \E x \in V : x.GSI3SK = SortKeyOf(resp.results[i])
           /\ \A x \in V :
                  \/ \E i \in 1..n : SortKeyOf(resp.results[i]) = x.GSI3SK
                  \/ \A i \in 1..n : StrLess(x.GSI3SK, SortKeyOf(resp.results[i]))
           /\ (pc = "done" /\ resp.req.limit >= Cardinality(V)) =>
                  \A p \in Range(papers) :
                      Lower(resp.req.name) \in Range(extract_keywords(p.abstract, 10))
                      => \E i \in 1..n : resp.results[i].val.arxiv_id = p.arxiv_id

\* the author views of the table for the name of resp
AuthorViews == {x \in table : x.type = "AUTHOR" /\ x.PK = AUTHOR_ \o resp.req.name}

\* C18: an answered by-author query returns one result for each author view
\* of the name as given and nothing else; so, after a load that reported,
\* one result for each paper of the file that lists the name, and none for a
\* paper that does not.
C18_ByAuthorExact ==
    (resp.op = "author" /\ Answered) =>
        /\ Len(resp.results) = Cardinality(AuthorViews)
        /\ {SortKeyOf(resp.results[i]) : i \in 1..Len(resp.results)}
               = {x.SK : x \in AuthorViews}
        /\ pc = "done" =>
               \A p \in Range(papers) :
                   resp.req.name \in Range(FieldOf(p, "authors"))
                   <=> \E i \in 1..Len(resp.results) :
                           resp.results[i].val.arxiv_id = p.arxiv_id

\* C18's case: the name is listed by one paper of the file and not by the
\* other, which lists it in another letter case or not at all, and the table
\* has views of the other kinds for the paper returned
C18_Witness ==
    /\ resp.op = "author"
    /\ resp.status \in {"ok", "200"}
    /\ pc = "done"
    /\ Len(papers) = 2
    /\ Len(resp.results) = 1
    /\ \E x \in table : x.type = "KW" /\ x.arxiv_id = resp.results[1].val.arxiv_id
    /\ \E x \in table : "GSI2PK" \in x.attrs /\ x.arxiv_id = resp.results[1].val.arxiv_id

\* C19: the view records of one paper have pairwise distinct primary keys,
\* and a load of the paper alone into the empty store leaves as many records
\* in the table as the paper has view records, which is the viewsWritten of
\* the report.
\* Fails: a paper that lists a category twice has two category views of one
\* primary key, which the batch write rejects.
C19_OnePaperKeysDistinct ==
    (/\ Len(papers) = 1
     /\ transform_paper(papers[1]).status = "ok"
     /\ pc \in {"done", "failed"}
     /\ out[1].error # "ClientError") =>
        LET items == transform_paper(papers[1]).items
        IN /\ \A i, j \in 1..Len(items) : i # j => Key(items[i]) # Key(items[j])
           /\ Cardinality(table) = Len(items)
           /\ out[1].created
           /\ out[1].viewsWritten = Cardinality(table)

\* C20: no result of a query that reports success has a field without value.
\* Fails: author and keyword views have no authors, which the command line
\* (author, keyword) and the server (keyword) put in their results.
C20_NoNullField ==
    resp.status \in {"ok", "200"} =>
        \A i \in 1..Len(resp.results) : NullKeys(resp.results[i]) = {}

\* the number of view records the papers of q are projected into
RECURSIVE ViewsOf(_)
ViewsOf(q) ==
    IF q = <<>> THEN 0 ELSE Len(transform_paper(Head(q)).items) + ViewsOf(Tail(q))

\* C21: a first load run over a file whose papers can all be projected, and
\* that no batch write fails, ends with its report: viewsWritten is the
\* number of view records of the papers (0 for the empty file) and the
\* factor is viewsWritten / papersProcessed to the nearest hundredth (a
\* defined value for the empty file).
\* Fails: for the empty file the division by len(papers) raises
\* ZeroDivisionError (line 250) after "Created 0 DynamoDB items" is printed.
C21_ReportOfRun ==
    (/\ FirstRunOver
     /\ \A i \in 1..Len(papers) : transform_paper(papers[i]).status = "ok") =>
        /\ out[1].error = ""
        /\ out[1].created /\ out[1].reported
        /\ out[1].viewsWritten = ViewsOf(papers)
        /\ Len(papers) > 0 =>
               LET d == 100 * out[1].viewsWritten - out[1].factor * Len(papers)
               IN 2 * d <= Len(papers) /\ -2 * d <= Len(papers)
=============================================================================
